---- MODULE Spec2Model ----
(***************************************************************************)
(* Grading and academic report engine of the school administration         *)
(* backend (v2/backend): the grades table written by upload_grade, the     *)
(* school's stored grading scale written by update_school_grading_system,  *)
(* the enrollments table, and the report built by generate_student_report. *)
(*                                                                         *)
(* Numbers.  Scores and rule bounds are integers.  Grade points are kept   *)
(* in tenths (4.0 is 40), a GPA in hundredths (2.40 is 240).  Python's     *)
(* None is NoneNum in a numeric field and NoneLetter in a letter field.    *)
(* An academic year is a string in the code and is compared as a string;   *)
(* here it is the sequence of its digits, compared lexicographically.      *)
(* Timestamps are only ever compared within one table: a grade's           *)
(* created_at and updated_at are readings of the clock now, an             *)
(* enrollment's enrolled_at is the ordinal of its commit.  Titles, codes   *)
(* and names, which no computation reads, are left out of the rows.        *)
(***************************************************************************)
EXTENDS Integers, Sequences, FiniteSets, TLC

VARIABLES
    grades,          \* the grades table: a sequence of Grade rows, in insertion order
    grading_system,  \* School.grading_system of the one school: the stored scale
    enrollments,     \* the enrollments table: a sequence of Enrollment rows
    now,             \* the clock behind datetime.utcnow of the grades table, one tick per upload commit
    response,        \* what the call of the current request returned (or raised), with the
                     \* locals of a report build; Idle between two requests
    student_results, \* the student_results table of the first version: a sequence of rows
    course_teacher,  \* Course.teacher_id of every course row
    calls            \* the locals of each caller inside a concurrent upload_grade

vars == <<grades, grading_system, enrollments, now, response, student_results, course_teacher, calls>>

---------------------------------------------------------------------------
(* Bounds of the model *)

\* grade uploads committed in one behaviour (the ticks of the clock)
MaxClock == 2
\* rows of the enrollments table
MaxEnroll == 3

---------------------------------------------------------------------------
(* Python's None *)

NoneNum == -1
NoneLetter == "<None>"
NoYear == <<>>

\* no call has been made in the current request
Idle == [op |-> "none"]

---------------------------------------------------------------------------
(* The fixed part of the database: users, classes, courses *)

Students == {1}
Teachers == {10, 11}
Admins == {20}
\* a second student, whose grades only the listing endpoint is asked about
Classmates == {2}
Users == Students \cup Classmates \cup Teachers \cup Admins
UnknownUser == 99

UserRole(u) ==
    IF u \in Students \cup Classmates THEN "student"
    ELSE IF u \in Teachers THEN "staff"
    ELSE IF u \in Admins THEN "admin"
    ELSE "none"

Y2023 == <<2, 0, 2, 3>>
Y2024 == <<2, 0, 2, 4>>

\* Class rows: id |-> academic_year
ClassRows == [c \in {1, 2} |-> CASE c = 1 -> Y2023 [] c = 2 -> Y2024]
Classes == DOMAIN ClassRows
Years == {ClassRows[c] : c \in Classes}

\* Course rows: id |-> class_id, credit_hours, teacher_id
CourseRows ==
    [c \in {1, 2, 3} |->
        CASE c = 1 -> [class_id |-> 1, credit_hours |-> 3, teacher_id |-> 10]
          [] c = 2 -> [class_id |-> 1, credit_hours |-> 2, teacher_id |-> 10]
          [] c = 3 -> [class_id |-> 2, credit_hours |-> 3, teacher_id |-> 11]]
Courses == DOMAIN CourseRows

CoursesOfClass(k) == {c \in Courses : CourseRows[c].class_id = k}

---------------------------------------------------------------------------
(* Grading scales: a scale is a sequence of rules; a rule is a record with *)
(* grade, min, max and, optionally, points (tenths) and remarks.           *)

\* the scale populate_db gives its demo schools
PopulateScale ==
    << [grade |-> "A", min |-> 80, max |-> 100],
       [grade |-> "B", min |-> 70, max |-> 79],
       [grade |-> "C", min |-> 60, max |-> 69],
       [grade |-> "F", min |-> 0, max |-> 59] >>

\* config.DEFAULT_GRADING_SYSTEM, the scale register_school_admin stores
\* when none is given
DEFAULT_GRADING_SYSTEM ==
    << [grade |-> "A", min |-> 80, max |-> 100],
       [grade |-> "B", min |-> 70, max |-> 79],
       [grade |-> "C", min |-> 60, max |-> 69],
       [grade |-> "D", min |-> 50, max |-> 59],
       [grade |-> "F", min |-> 0, max |-> 49] >>

\* a scale with explicit points, the shape of the example in grade_point
PointsScale ==
    << [grade |-> "A", min |-> 80, max |-> 100, points |-> 40],
       [grade |-> "B", min |-> 50, max |-> 79, points |-> 30],
       [grade |-> "F", min |-> 0, max |-> 49, points |-> 0] >>

\* overlapping rules and a gap below 60; the second rule has no points
OverlapScale ==
    << [grade |-> "A", min |-> 85, max |-> 100, points |-> 50, remarks |-> "Top"],
       [grade |-> "B", min |-> 60, max |-> 85] >>

EmptyScale == <<>>

\* School.grading_system is a text column: json.dumps writes it, json.loads
\* reads it back and raises on a text that is not JSON
json_dumps(gs) == [parses |-> TRUE, doc |-> gs]
Unparseable == [parses |-> FALSE, doc |-> <<>>]

ValidScales == {PopulateScale, PointsScale, OverlapScale, EmptyScale}

\* a rule with min > max, and a rule that lacks max
MinAboveMaxScale == << [grade |-> "A", min |-> 80, max |-> 100], [grade |-> "B", min |-> 79, max |-> 70] >>
MissingKeyScale == << [grade |-> "A", min |-> 80] >>

\* a rule whose max is the JSON string "79": the keys listed under strings
\* carry a string where a number is expected
NonNumericScale ==
    << [grade |-> "A", min |-> 80, max |-> 100],
       [grade |-> "B", min |-> 70, max |-> 79, strings |-> {"max"}] >>

ScaleInputs == ValidScales \cup {MinAboveMaxScale, MissingKeyScale, NonNumericScale}

\* the scores a grader submits
Scores == {55, 85}

---------------------------------------------------------------------------
(* Helpers *)

MinOf(S) == CHOOSE x \in S : \A y \in S : x <= y

\* a < b as Python and the database compare strings: lexicographically
RECURSIVE StrLess(_, _)
StrLess(a, b) ==
    IF b = <<>> THEN FALSE
    ELSE IF a = <<>> THEN TRUE
    ELSE IF Head(a) # Head(b) THEN Head(a) < Head(b)
    ELSE StrLess(Tail(a), Tail(b))

---------------------------------------------------------------------------
(* The scale a report or a grade listing works with *)

\* school.grading_system read and parsed: an empty or unparseable text
\* leaves the local grading_system at []
\* the scale of populate_db whatever the school stores
LoadGradingSystemInitial(stored) == PopulateScale

LoadGradingSystem(stored) ==
    IF stored.parses THEN stored.doc ELSE EmptyScale

\* a lookup that takes a rule's max as exclusive
get_letter_grade_exclusive_max(value, gs) ==
    IF value = NoneNum \/ gs = EmptyScale THEN NoneLetter
    ELSE LET hit == {i \in 1..Len(gs) : gs[i].min <= value /\ value < gs[i].max}
         IN IF hit = {} THEN NoneLetter ELSE gs[MinOf(hit)].grade

\* get_letter_grade(value): the grade of the first rule containing value
get_letter_grade(value, gs) ==
    IF value = NoneNum \/ gs = EmptyScale THEN NoneLetter
    ELSE LET hit == {i \in 1..Len(gs) : gs[i].min <= value /\ value <= gs[i].max}
         IN IF hit = {} THEN NoneLetter ELSE gs[MinOf(hit)].grade

\* the fallback table of grade_point, in tenths
StandardPoints(letter) ==
    CASE letter \in {"A+", "A"} -> 40
      [] letter = "A-" -> 37
      [] letter = "B+" -> 33
      [] letter = "B" -> 30
      [] letter = "B-" -> 27
      [] letter = "C+" -> 23
      [] letter = "C" -> 20
      [] letter = "C-" -> 17
      [] letter = "D+" -> 13
      [] letter = "D" -> 10
      [] letter = "D-" -> 7
      [] letter = "E" -> 5
      [] letter = "F" -> 0
      [] OTHER -> 0

\* float(rule.get("points", 0.0))
RulePoints(rule) == IF "points" \in DOMAIN rule THEN rule.points ELSE 0

\* grade_point(letter): the first rule with that grade decides
grade_point(letter, gs) ==
    LET same == {i \in 1..Len(gs) : gs[i].grade = letter}
    IN IF gs # EmptyScale /\ same # {}
       THEN RulePoints(gs[MinOf(same)])
       ELSE StandardPoints(letter)

\* the fallback table of get_remarks
RemarksMap(letter) ==
    CASE letter \in {"A+", "A", "A-"} -> "Excellent"
      [] letter \in {"B+", "B"} -> "Very Good"
      [] letter \in {"B-", "C+", "C"} -> "Good"
      [] letter = "C-" -> "Satisfactory"
      [] letter \in {"D+", "D", "D-"} -> "Pass"
      [] letter = "E" -> "Marginal Pass"
      [] letter = "F" -> "Fail"
      [] OTHER -> ""

\* get_remarks(letter): the first rule with that grade and a non-empty remarks
get_remarks(letter, gs) ==
    LET same == {i \in 1..Len(gs) :
                    /\ gs[i].grade = letter
                    /\ "remarks" \in DOMAIN gs[i]
                    /\ gs[i].remarks # ""}
    IN IF gs # EmptyScale /\ same # {}
       THEN gs[MinOf(same)].remarks
       ELSE RemarksMap(letter)

---------------------------------------------------------------------------
(* Reading the tables *)

\* db.query(Grade).filter_by(student_id=..., course_id=...): the rows, oldest first
GradeRowsOf(sid, c) ==
    {i \in 1..Len(grades) : grades[i].student_id = sid /\ grades[i].course_id = c}

HasGrade(sid, c) == GradeRowsOf(sid, c) # {}

\* .first() of that query
FirstGrade(sid, c) == grades[MinOf(GradeRowsOf(sid, c))]

\* the course ids of a class, as .all() lists them (by primary key)
RECURSIVE SortedSeq(_)
SortedSeq(S) == IF S = {} THEN <<>> ELSE <<MinOf(S)>> \o SortedSeq(S \ {MinOf(S)})

\* a letter Python takes as true: not None and not the empty string
Truthy(letter) == letter # NoneLetter /\ letter # ""

---------------------------------------------------------------------------
(* generate_student_report: the per-course entry and the per-year totals *)

\* the dict appended to year_reports[yr]["courses"] for one course
CourseEntry(sid, c, gs) ==
    LET value == IF HasGrade(sid, c) THEN FirstGrade(sid, c).value ELSE NoneNum
        letter == get_letter_grade(value, gs)
        points == IF Truthy(letter) THEN grade_point(letter, gs) * CourseRows[c].credit_hours ELSE 0
    IN [id |-> c,
        credit_hours |-> CourseRows[c].credit_hours,
        grade_value |-> value,
        grade_id |-> IF HasGrade(sid, c) THEN FirstGrade(sid, c).id ELSE NoneNum,
        graded_at |-> IF HasGrade(sid, c) THEN FirstGrade(sid, c).created_at ELSE NoneNum,
        letter_grade |-> letter,
        remarks |-> get_remarks(letter, gs),
        grade_points |-> points]

\* the entries of one enrollment's class, in course order
ClassEntries(sid, k, gs) ==
    LET ids == SortedSeq(CoursesOfClass(k))
    IN [i \in 1..Len(ids) |-> CourseEntry(sid, ids[i], gs)]

\* every credit-bearing course enters the totals, graded or not
CountedEveryCourse(e) == e.credit_hours # 0

\* "if letter and course.credit_hours": the entry enters the totals
Counted(e) == Truthy(e.letter_grade) /\ e.credit_hours # 0

RECURSIVE SumPoints(_)
SumPoints(es) ==
    IF es = <<>> THEN 0
    ELSE (IF Counted(Head(es)) THEN Head(es).grade_points ELSE 0) + SumPoints(Tail(es))

RECURSIVE SumCredits(_)
SumCredits(es) ==
    IF es = <<>> THEN 0
    ELSE (IF Counted(Head(es)) THEN Head(es).credit_hours ELSE 0) + SumCredits(Tail(es))

\* year_reports after one more pass of the loop body, for the enrollment enr
AddEnrollment(prev, enr, sid, gs) ==
    LET yr == ClassRows[enr.class_id]
        old == IF yr \in DOMAIN prev
               THEN prev[yr]
               ELSE [courses |-> <<>>, total_points |-> 0, total_credits |-> 0]
        es == ClassEntries(sid, enr.class_id, gs)
        new == [courses |-> old.courses \o es,
                total_points |-> old.total_points + SumPoints(es),
                total_credits |-> old.total_credits + SumCredits(es)]
    IN [y \in (DOMAIN prev) \cup {yr} |-> IF y = yr THEN new ELSE prev[y]]

\* year_reports after the first n enrollments of the loop
RECURSIVE YearReports(_, _, _, _)
YearReports(enrs, n, sid, gs) ==
    IF n = 0 THEN <<>>
    ELSE AddEnrollment(YearReports(enrs, n - 1, sid, gs), enrs[n], sid, gs)

\* accumulated_points and accumulated_credits after the first n enrollments
RECURSIVE AccumulatedPoints(_, _, _, _)
AccumulatedPoints(enrs, n, sid, gs) ==
    IF n = 0 THEN 0
    ELSE AccumulatedPoints(enrs, n - 1, sid, gs) + SumPoints(ClassEntries(sid, enrs[n].class_id, gs))

RECURSIVE AccumulatedCredits(_, _, _, _)
AccumulatedCredits(enrs, n, sid, gs) ==
    IF n = 0 THEN 0
    ELSE AccumulatedCredits(enrs, n - 1, sid, gs) + SumCredits(ClassEntries(sid, enrs[n].class_id, gs))

\* round(points / credits, 2) for credits > 0: points in tenths, the result in
\* hundredths, a tie going to the even neighbour
Round2(points, credits) ==
    LET num == 10 * points
        q == num \div credits
        r == num % credits
    IN IF 2 * r < credits THEN q
       ELSE IF 2 * r > credits THEN q + 1
       ELSE IF q % 2 = 0 THEN q ELSE q + 1

\* a gpa of 0.0 where the year has no graded credit
YearGpaZeroWhenEmpty(yrep) ==
    IF yrep.total_credits > 0 THEN Round2(yrep.total_points, yrep.total_credits) ELSE 0

\* the gpa of one year of year_reports
YearGpa(yrep) ==
    IF yrep.total_credits > 0 THEN Round2(yrep.total_points, yrep.total_credits) ELSE NoneNum

\* sorted(year_reports.keys())[-1]
LatestYear(ys) == CHOOSE y \in ys : \A z \in ys : z = y \/ StrLess(z, y)

---------------------------------------------------------------------------
(* generate_student_report(student_id, academic_year) *)

EnrollmentRowsOf(sid) == {i \in 1..Len(enrollments) : enrollments[i].student_id = sid}

\* the enrollment query of the header: the student's rows, of the requested
\* year when one is requested
HeaderCandidates(sid, ay) ==
    {i \in EnrollmentRowsOf(sid) : ay = NoYear \/ ClassRows[enrollments[i].class_id] = ay}

\* order_by(Enrollment.enrolled_at.desc()).first()
HeaderEnrollment(sid, ay) ==
    LET cand == HeaderCandidates(sid, ay)
    IN enrollments[CHOOSE i \in cand :
                      \A j \in cand : enrollments[j].enrolled_at <= enrollments[i].enrolled_at]

\* all_enrollments: the student's rows ordered by Class.academic_year.  The
\* database fixes no order among rows of one year; here rows of one year are
\* rows of one class (ClassRows has one class per year), whose entries are
\* equal, so every such order builds the same year_reports, and the rows of
\* one year are taken in insertion order.
RECURSIVE SortRows(_)
SortRows(idx) ==
    IF idx = {} THEN <<>>
    ELSE LET yearOf(i) == ClassRows[enrollments[i].class_id]
             m == CHOOSE i \in idx : \A j \in idx :
                     \/ StrLess(yearOf(i), yearOf(j))
                     \/ (yearOf(i) = yearOf(j) /\ i <= j)
         IN <<enrollments[m]>> \o SortRows(idx \ {m})

AllEnrollments(sid) == SortRows(EnrollmentRowsOf(sid))

\* the latest year whatever year is requested
PrimaryYearAlwaysLatest(ay, yrs) ==
    IF DOMAIN yrs # {} THEN LatestYear(DOMAIN yrs) ELSE NoYear

\* the year whose courses and gpa become course_reports and gpa
PrimaryYear(ay, yrs) ==
    IF ay # NoYear /\ ay \in DOMAIN yrs THEN ay
    ELSE IF DOMAIN yrs # {} THEN LatestYear(DOMAIN yrs)
    ELSE NoYear

\* the first dict assigned to report, with the term and cumulative figures
ReportDraft(sid, class_, course_reports, gpa, accumulated_gpa, yrs) ==
    [student |-> [id |-> sid],
     academic_year |-> ClassRows[class_],
     class |-> [id |-> class_],
     courses |-> course_reports,
     gpa |-> gpa,
     accumulated_gpa |-> accumulated_gpa,
     yearly_reports |-> yrs]

\* the second dict assigned to report, the one returned
ReturnedReport(sid, class_, course_reports, gpa, accumulated_gpa, yrs) ==
    [student |-> [id |-> sid],
     academic_year |-> ClassRows[class_],
     class |-> [id |-> class_],
     courses |-> course_reports]

\* what follows the loop: the primary view, the two GPAs and the report
\* returned, from the locals the loop leaves
FinishReport(sid, ay, gs, yrs, ap, ac) ==
    LET py == PrimaryYear(ay, yrs)
        course_reports == IF py = NoYear THEN <<>> ELSE yrs[py].courses
        gpa == IF py = NoYear THEN NoneNum ELSE YearGpa(yrs[py])
        accumulated_gpa == IF ac > 0 THEN Round2(ap, ac) ELSE NoneNum
        class_ == HeaderEnrollment(sid, ay).class_id
    IN [op |-> "generate_student_report",
        status |-> "returned",
        student_id |-> sid,
        academic_year |-> ay,
        grading_system |-> gs,
        year_reports |-> yrs,
        accumulated_points |-> ap,
        accumulated_credits |-> ac,
        course_reports |-> course_reports,
        gpa |-> gpa,
        accumulated_gpa |-> accumulated_gpa,
        report |-> ReturnedReport(sid, class_, course_reports, gpa, accumulated_gpa, yrs)]

\* the locals of a build that ran to its return, and the report it returns
BuildReport(sid, ay, order) ==
    LET gs == LoadGradingSystem(grading_system)
        n == Len(order)
    IN FinishReport(sid, ay, gs,
                    YearReports(order, n, sid, gs),
                    AccumulatedPoints(order, n, sid, gs),
                    AccumulatedCredits(order, n, sid, gs))

\* the ValueError a build raises instead of returning
Raised(sid, ay, msg) ==
    [op |-> "generate_student_report", status |-> "raised",
     student_id |-> sid, academic_year |-> ay, error |-> msg]

generate_student_report(sid, ay) ==
    /\ response = Idle
    /\ \/ /\ sid \notin Users
          /\ response' = Raised(sid, ay, "Student not found")
       \/ /\ sid \in Users
          /\ HeaderCandidates(sid, ay) = {}
          /\ response' = Raised(sid, ay, "No enrollment found")
       \/ /\ sid \in Users
          /\ HeaderCandidates(sid, ay) # {}
          /\ response' = BuildReport(sid, ay, AllEnrollments(sid))
    /\ UNCHANGED <<calls, course_teacher, student_results, grades, grading_system, enrollments, now>>

---------------------------------------------------------------------------
(* get_grades_for_student(student_id) *)

\* the grade rows the listing walks: the student's, when the user is a student
ListedGrades(sid) ==
    IF UserRole(sid) # "student" THEN {}
    ELSE {i \in 1..Len(grades) : grades[i].student_id = sid}

\* Building the entry of the first row reads grade.semester, an attribute the
\* Grade model does not define: the AttributeError is caught by the
\* function's "except Exception", which logs it and returns [].  With no row
\* to walk the result is [] as well.
GradeListing(sid) == <<>>

get_grades_for_student(sid) ==
    /\ response = Idle
    /\ response' = [op |-> "get_grades_for_student",
                    grading_system |-> LoadGradingSystem(grading_system),
                    caught |-> IF ListedGrades(sid) # {} THEN "AttributeError" ELSE "",
                    result |-> GradeListing(sid)]
    /\ UNCHANGED <<calls, course_teacher, student_results, grades, grading_system, enrollments, now>>

---------------------------------------------------------------------------
(* upload_grade(student_id, course_id, value, graded_by) *)

UploadFailure(msg) == [op |-> "upload_grade", success |-> FALSE, message |-> msg]

\* an upsert that never looks the existing row up and always inserts
UpsertGradeAlwaysInsert(sid, c, value, by, t) ==
    Append(grades, [id |-> Len(grades) + 1,
                    student_id |-> sid,
                    course_id |-> c,
                    value |-> value,
                    created_at |-> t,
                    updated_at |-> t,
                    graded_by |-> by])

\* the grades table after "create or update grade" and the commit at time t.
\* An existing row is only assigned grade.value: when the value assigned
\* equals the one loaded the row is not changed, no UPDATE is sent and
\* onupdate leaves updated_at as it is; graded_by is never assigned.
UpsertGrade(sid, c, value, by, t) ==
    IF HasGrade(sid, c)
    THEN LET i == MinOf(GradeRowsOf(sid, c))
         IN [grades EXCEPT ![i].value = value,
                           ![i].updated_at = IF grades[i].value # value THEN t ELSE @]
    ELSE Append(grades, [id |-> Len(grades) + 1,
                         student_id |-> sid,
                         course_id |-> c,
                         value |-> value,
                         created_at |-> t,
                         updated_at |-> t,
                         graded_by |-> by])

\* User row with id graded_by and role staff
ValidTeacher(by) == UserRole(by) = "staff"

\* every course passes for every grader
AssignedCourseAnyTeacher(c, by) == c \in Courses

\* Course row with id course_id and teacher_id graded_by
AssignedCourse(c, by) == c \in Courses /\ course_teacher[c] = by

upload_grade(sid, c, value, by) ==
    \/ /\ response = Idle
       /\ ~ValidTeacher(by)
       /\ response' = UploadFailure("Grader is not a valid teacher")
       /\ UNCHANGED <<calls, course_teacher, student_results, grades, grading_system, enrollments, now>>
    \/ /\ response = Idle
       /\ ValidTeacher(by)
       /\ UserRole(sid) # "student"
       /\ response' = UploadFailure("Student not found")
       /\ UNCHANGED <<calls, course_teacher, student_results, grades, grading_system, enrollments, now>>
    \/ /\ response = Idle
       /\ ValidTeacher(by)
       /\ UserRole(sid) = "student"
       /\ ~AssignedCourse(c, by)
       /\ response' = UploadFailure("Course not found or not assigned to this teacher")
       /\ UNCHANGED <<calls, course_teacher, student_results, grades, grading_system, enrollments, now>>
    \/ /\ response = Idle
       /\ ValidTeacher(by)
       /\ UserRole(sid) = "student"
       /\ AssignedCourse(c, by)
       /\ now < MaxClock
       /\ now' = now + 1
       /\ grades' = UpsertGrade(sid, c, value, by, now')
       /\ response' = [op |-> "upload_grade", success |-> TRUE,
                       message |-> "Grade uploaded successfully",
                       data |-> grades'[MinOf({i \in 1..Len(grades') :
                                       grades'[i].student_id = sid /\ grades'[i].course_id = c})]]
       /\ UNCHANGED <<calls, course_teacher, student_results, grading_system, enrollments>>

---------------------------------------------------------------------------
(* update_school_grading_system(school_id, grading_system) *)

SchoolIds == {1}
UnknownSchool == 2

RuleHasKeys(rule) == {"grade", "min", "max"} \subseteq DOMAIN rule
\* isinstance(rule[key], (int, float))
IsNumber(rule, key) == ~("strings" \in DOMAIN rule /\ key \in rule.strings)
\* a check of the types of min and max alone
RuleBoundsOkTypesOnly(rule) == IsNumber(rule, "min") /\ IsNumber(rule, "max")

RuleBoundsOk(rule) ==
    IsNumber(rule, "min") /\ IsNumber(rule, "max") /\ rule.min <= rule.max

UpdateFailure(msg) == [op |-> "update_school_grading_system", success |-> FALSE, message |-> msg]

\* a validation that looks at the keys of the rules only
ValidationMessageKeysOnly(gs) ==
    IF \E i \in 1..Len(gs) : ~RuleHasKeys(gs[i])
    THEN "Each grading rule must be a dict with grade, min, and max"
    ELSE ""

\* the validation loop: the message of the first rule that fails, "" when none does
ValidationMessage(gs) ==
    LET bad == {i \in 1..Len(gs) : ~RuleHasKeys(gs[i]) \/ ~RuleBoundsOk(gs[i])}
    IN IF bad = {} THEN ""
       ELSE IF ~RuleHasKeys(gs[MinOf(bad)])
            THEN "Each grading rule must be a dict with grade, min, and max"
            ELSE "min and max must be numbers with min <= max"

update_school_grading_system(school_id, gs) ==
    \/ /\ response = Idle
       /\ ValidationMessage(gs) # ""
       /\ response' = UpdateFailure(ValidationMessage(gs))
       /\ UNCHANGED <<calls, course_teacher, student_results, grades, grading_system, enrollments, now>>
    \/ /\ response = Idle
       /\ ValidationMessage(gs) = ""
       /\ school_id \notin SchoolIds
       /\ response' = UpdateFailure("School not found")
       /\ UNCHANGED <<calls, course_teacher, student_results, grades, grading_system, enrollments, now>>
    \/ /\ response = Idle
       /\ ValidationMessage(gs) = ""
       /\ school_id \in SchoolIds
       /\ grading_system' = json_dumps(gs)
       /\ response' = [op |-> "update_school_grading_system", success |-> TRUE,
                       message |-> "Grading system updated successfully",
                       grading_system |-> LoadGradingSystem(grading_system')]
       /\ UNCHANGED <<calls, course_teacher, student_results, grades, enrollments, now>>

---------------------------------------------------------------------------
(* register_school_admin(school_name, full_name, phone, email, gender,     *)
(* grading_system)                                                         *)

\* the names of the schools in the database, and a name not yet in use
SchoolNames == {"Demo School 1"}
NewSchoolName == "Test School"

\* the grading_system argument: None, or a list the caller passes
NoScale == <<>>
RegisterScales == {NoScale, PointsScale, MinAboveMaxScale}

\* the columns of User declared nullable=False without a default
UserRequiredColumns ==
    {"username", "full_name", "hashed_password", "email", "role", "gender", "date_of_birth"}

\* the columns the admin User(...) of a registration is built with
AdminUserColumns == {"username", "full_name", "hashed_password", "email", "role", "gender"}

\* db.commit() of a new User row: the insert is refused when a required
\* column is left NULL
UserCommitError(columns) ==
    IF UserRequiredColumns \subseteq columns THEN ""
    ELSE "null value in column \"date_of_birth\" violates not-null constraint"

NoSchool == [stored |-> FALSE]

RegisterResult(school_name, gs, status, message, gs_json, school) ==
    [op |-> "register_school_admin", school_name |-> school_name, grading_system |-> gs,
     status |-> status, message |-> message,
     grading_system_json |-> gs_json, school |-> school]

\* Nothing is validated in the grading_system argument.  A name in use is
\* answered with an error before any insert.  Otherwise the admin user is
\* inserted first: it is built without date_of_birth, so its commit is
\* refused, the except branch rolls back and answers with the database's
\* message, and the School(...) insert that follows is never reached.
register_school_admin(school_name, gs) ==
    /\ response = Idle
    /\ LET scale == IF gs = NoScale THEN DEFAULT_GRADING_SYSTEM ELSE gs
           grading_system_json == json_dumps(scale)
       IN \/ /\ school_name \in SchoolNames
             /\ response' = RegisterResult(school_name, gs, "error",
                                           "School name already exists.",
                                           grading_system_json, NoSchool)
          \/ /\ school_name \notin SchoolNames
             /\ UserCommitError(AdminUserColumns) # ""
             /\ response' = RegisterResult(school_name, gs, "error",
                                           UserCommitError(AdminUserColumns),
                                           grading_system_json, NoSchool)
    /\ UNCHANGED <<calls, course_teacher, student_results, grades, grading_system, enrollments, now>>

---------------------------------------------------------------------------
(* An enrollment row committed for a student and a class *)

\* Enrollment(student_id, class_id) added and committed.  The table has no
\* uniqueness constraint over (student_id, class_id), and the report reads
\* every row of the student, so a student may hold rows of several classes
\* and several rows of one class.
enroll(sid, k) ==
    /\ response = Idle
    /\ Len(enrollments) < MaxEnroll
    /\ enrollments' = Append(enrollments, [id |-> Len(enrollments) + 1,
                                            student_id |-> sid,
                                            class_id |-> k,
                                            enrolled_at |-> Len(enrollments) + 1])
    /\ response' = [op |-> "enroll", success |-> TRUE, enrollment_id |-> Len(enrollments')]
    /\ UNCHANGED <<calls, course_teacher, student_results, grades, grading_system, now>>

---------------------------------------------------------------------------
(* The database populate_db leaves: the school with its scale, the classes *)
(* and courses, the student enrolled in a first class, no grade yet        *)

\* the request is over: the handler has written its answer
request_end ==
    /\ response # Idle
    /\ response' = Idle
    /\ UNCHANGED <<calls, course_teacher, student_results, grades, grading_system, enrollments, now>>

\* the callers that may be inside upload_grade at the same time, each with a
\* database session of its own
Procs == {1, 2}

\* a caller that is not inside upload_grade
NoCall == [pc |-> "idle", value |-> NoneNum, found |-> NoneNum]

Init ==
    /\ grades = <<>>
    /\ grading_system = json_dumps(PopulateScale)
    /\ enrollments = << [id |-> 1, student_id |-> 1, class_id |-> 1, enrolled_at |-> 1] >>
    /\ now = 0
    /\ response = Idle
    /\ calls = [p \in Procs |-> NoCall]
    /\ course_teacher = [c \in Courses |-> CourseRows[c].teacher_id]
    /\ student_results = <<>>

Next ==
    \/ request_end
    \/ \E sid \in Students \cup {UnknownUser}, c \in Courses, v \in Scores, by \in Teachers \cup Admins :
          upload_grade(sid, c, v, by)
    \/ \E school_id \in SchoolIds \cup {UnknownSchool}, gs \in ScaleInputs :
          update_school_grading_system(school_id, gs)
    \/ \E school_name \in SchoolNames \cup {NewSchoolName}, gs \in RegisterScales :
          register_school_admin(school_name, gs)
    \/ \E sid \in Students, k \in Classes : enroll(sid, k)
    \/ \E sid \in Students \cup {UnknownUser}, ay \in Years \cup {NoYear} :
          generate_student_report(sid, ay)
    \/ \E sid \in Students \cup {UnknownUser} : get_grades_for_student(sid)

Spec == Init /\ [][Next]_vars

---------------------------------------------------------------------------
(* Grade submissions by direct calls of upload_grade, which any caller may *)
(* make with any number as value: the function's own checks are the only   *)
(* ones that run                                                           *)

\* values a caller may pass: below the range, its two ends, above the range
SubmitScores == {0 - 5, 0, 100, 150}

NextSubmit ==
    \/ request_end
    \/ \E sid \in Students \cup {UnknownUser}, c \in Courses, v \in SubmitScores,
          by \in Teachers \cup Admins :
          upload_grade(sid, c, v, by)

SpecSubmit == Init /\ [][NextSubmit]_vars

---------------------------------------------------------------------------
(* generate_student_report step by step, with grading-scale updates of     *)
(* other callers committing between its database reads                     *)

\* the scales another caller's update commits during a build
CommitScales == {PointsScale, OverlapScale}

\* the score uploaded before the builds
ReportScores == {55}

\* a build re-reading the school's stored scale at every pass of the loop
LoopScaleReread(local, stored) == LoadGradingSystem(stored)

\* the scale the loop's closures see: the list bound to the local
\* grading_system before the loop, whatever the school stores by now
LoopScale(local, stored) == local

\* the student and the header enrollment are found, the school's scale is
\* parsed into the local, all_enrollments is fetched
report_load(sid, ay) ==
    /\ response = Idle
    /\ sid \in Users
    /\ HeaderCandidates(sid, ay) # {}
    /\ response' = [op |-> "generate_student_report",
                    status |-> "running",
                    student_id |-> sid,
                    academic_year |-> ay,
                    grading_system |-> LoadGradingSystem(grading_system),
                    all_enrollments |-> AllEnrollments(sid),
                    n |-> 0,
                    year_reports |-> <<>>,
                    accumulated_points |-> 0,
                    accumulated_credits |-> 0]
    /\ UNCHANGED <<calls, course_teacher, student_results, grades, grading_system, enrollments, now>>

\* one pass of "for enr in all_enrollments"
report_enrollment ==
    /\ response # Idle
    /\ response.op = "generate_student_report"
    /\ response.status = "running"
    /\ response.n < Len(response.all_enrollments)
    /\ LET gs == LoopScale(response.grading_system, grading_system)
           enr == response.all_enrollments[response.n + 1]
           es == ClassEntries(response.student_id, enr.class_id, gs)
       IN response' = [response EXCEPT
                         !.n = @ + 1,
                         !.year_reports = AddEnrollment(@, enr, response.student_id, gs),
                         !.accumulated_points = @ + SumPoints(es),
                         !.accumulated_credits = @ + SumCredits(es)]
    /\ UNCHANGED <<calls, course_teacher, student_results, grades, grading_system, enrollments, now>>

\* the loop is over: primary view, GPAs, return
report_return ==
    /\ response # Idle
    /\ response.op = "generate_student_report"
    /\ response.status = "running"
    /\ response.n = Len(response.all_enrollments)
    /\ response' = FinishReport(response.student_id, response.academic_year,
                                response.grading_system, response.year_reports,
                                response.accumulated_points, response.accumulated_credits)
    /\ UNCHANGED <<calls, course_teacher, student_results, grades, grading_system, enrollments, now>>

\* school.grading_system = json.dumps(gs); db.commit() of an update made by
\* another caller while the build is between two of its reads
scale_commit(gs) ==
    /\ response # Idle
    /\ response.op = "generate_student_report"
    /\ response.status = "running"
    /\ ValidationMessage(gs) = ""
    /\ grading_system # json_dumps(gs)
    /\ grading_system' = json_dumps(gs)
    /\ UNCHANGED <<calls, course_teacher, student_results, grades, enrollments, now, response>>

NextReport ==
    \/ request_end
    \/ \E sid \in Students \cup {UnknownUser}, c \in Courses, v \in ReportScores,
          by \in Teachers \cup Admins :
          upload_grade(sid, c, v, by)
    \/ \E sid \in Students, k \in Classes : enroll(sid, k)
    \/ \E sid \in Students, ay \in Years \cup {NoYear} : report_load(sid, ay)
    \/ report_enrollment
    \/ report_return
    \/ \E gs \in CommitScales : scale_commit(gs)

SpecReport == Init /\ [][NextReport]_vars

---------------------------------------------------------------------------
(* The score evaluation on its own: what the loop of a report build (and   *)
(* of a grade listing) computes for one score under the stored scale       *)

\* the highest score a grade handler lets through
MaxScore == 100

\* a scale an update accepts in which two rules share the label "A", each
\* with its own remarks
SharedLabelScale ==
    << [grade |-> "A", min |-> 90, max |-> 100, remarks |-> "Outstanding"],
       [grade |-> "A", min |-> 80, max |-> 89, remarks |-> "Very good"],
       [grade |-> "F", min |-> 0, max |-> 79] >>

EvalScales == ValidScales \cup {DEFAULT_GRADING_SYSTEM, SharedLabelScale}

\* letter = get_letter_grade(value); remarks = get_remarks(letter);
\* grade_point(letter) if letter
resolve(value) ==
    /\ response = Idle
    /\ LET gs == LoadGradingSystem(grading_system)
           letter == get_letter_grade(value, gs)
       IN response' = [op |-> "resolve",
                       value |-> value,
                       grading_system |-> gs,
                       letter_grade |-> letter,
                       remarks |-> get_remarks(letter, gs),
                       grade_point |-> IF Truthy(letter) THEN grade_point(letter, gs) ELSE 0]
    /\ UNCHANGED <<calls, course_teacher, student_results, grades, grading_system, enrollments, now>>

InitEval ==
    /\ grades = <<>>
    /\ grading_system \in {json_dumps(gs) : gs \in EvalScales} \cup {Unparseable}
    /\ enrollments = <<>>
    /\ now = 0
    /\ response = Idle
    /\ calls = [p \in Procs |-> NoCall]
    /\ course_teacher = [c \in Courses |-> CourseRows[c].teacher_id]
    /\ student_results = <<>>

NextEval ==
    \/ request_end
    \/ \E value \in (0..MaxScore) \cup {NoneNum} : resolve(value)

SpecEval == InitEval /\ [][NextEval]_vars

---------------------------------------------------------------------------
(* POST /upload_grade: the server's dispatch and handle_upload_grade *)

NoUser == [form |-> "none", id |-> NoneNum, role |-> "none"]

\* the claims handle_login signs into the token of user u
TokenPayload(u) == [user_id |-> u, role |-> UserRole(u)]

\* request.user as the server sets it from a token's payload: a dict
get_authenticated_user(payload) ==
    [form |-> "dict", id |-> payload.user_id, role |-> payload.role]

\* request.user as the handler's unit tests set it: an object with the
\* attributes id and role.value
make_user(role, user_id) == [form |-> "object", id |-> user_id, role |-> role]

RequiredFields == <<"student_id", "course_id", "value", "graded_by">>
AllFields == {RequiredFields[i] : i \in 1..Len(RequiredFields)}

\* a request body: nothing (Content-Length 0), bytes that are not JSON, or a
\* JSON object with the keys in keys, of which those in strings have a
\* string as value and the others the number given
Bodies ==
    {[kind |-> kind, keys |-> {}, strings |-> {},
      student_id |-> 0, course_id |-> 0, value |-> 0, graded_by |-> 0] :
        kind \in {"empty", "text"}}
    \cup
    {[kind |-> "object", keys |-> k, strings |-> s,
      student_id |-> sid, course_id |-> c, value |-> v, graded_by |-> by] :
        k \in {AllFields} \cup {AllFields \ {f} : f \in AllFields}
                \cup {{"student_id", "course_id"}},
        s \in {{}, {"value"}, {"course_id"}},
        sid \in Students, c \in {1, 3}, v \in {0, 85, 150}, by \in {10, 20}}

\* what upload_grade returns and the table it leaves, for a call at time now
UploadResult(sid, c, value, by) ==
    IF ~ValidTeacher(by)
    THEN [success |-> FALSE, message |-> "Grader is not a valid teacher",
          grades |-> grades, now |-> now]
    ELSE IF UserRole(sid) # "student"
    THEN [success |-> FALSE, message |-> "Student not found",
          grades |-> grades, now |-> now]
    ELSE IF ~AssignedCourse(c, by)
    THEN [success |-> FALSE,
          message |-> "Course not found or not assigned to this teacher",
          grades |-> grades, now |-> now]
    ELSE [success |-> TRUE, message |-> "Grade uploaded successfully",
          grades |-> UpsertGrade(sid, c, value, by, now + 1), now |-> now + 1]

\* a response written by the handler or by the decorator
Reply(status, key, text) ==
    [status |-> status, key |-> key, text |-> text,
     called |-> FALSE, success |-> FALSE, raised |-> "",
     grades |-> grades, now |-> now]

\* user.id on a dict
AttributeError ==
    [status |-> NoneNum, key |-> "", text |-> "'dict' object has no attribute 'id'",
     called |-> FALSE, success |-> FALSE, raised |-> "AttributeError",
     grades |-> grades, now |-> now]

\* a branch whose log line reads user.id before the response is written
Logged(user, reply) == IF user.form = "dict" THEN AttributeError ELSE reply

\* the first required field that is not a key of the body, "" when none
FirstMissing(body) ==
    LET missing == {i \in 1..Len(RequiredFields) : RequiredFields[i] \notin body.keys}
    IN IF missing = {} THEN "" ELSE RequiredFields[MinOf(missing)]

\* json.dumps({"error": "Missing required field: <field>"})
MissingField(field) ==
    IF field = "student_id" THEN "Missing required field: student_id"
    ELSE IF field = "course_id" THEN "Missing required field: course_id"
    ELSE IF field = "value" THEN "Missing required field: value"
    ELSE "Missing required field: graded_by"

\* require_role: the role read from the dict or from role.value is one of
\* allowed_roles
RolePasses(user, allowed_roles) ==
    user.form # "none" /\ user.role \in allowed_roles

\* the decorated handler, from the role check to the response
HandleUploadGrade(user, body) ==
    IF user.form = "none"
    THEN Reply(403, "error", "Forbidden: authentication required")
    ELSE IF ~RolePasses(user, {"admin", "teacher"})
    THEN Reply(403, "error", "Forbidden: insufficient permissions")
    ELSE IF body.kind = "empty"
    THEN Logged(user, Reply(400, "error", "No data provided"))
    ELSE IF body.kind = "text"
    THEN Logged(user, Reply(400, "error", "Invalid JSON body."))
    ELSE IF FirstMissing(body) # ""
    THEN Logged(user, Reply(400, "error", MissingField(FirstMissing(body))))
    ELSE IF body.strings \cap {"student_id", "course_id", "graded_by"} # {}
    THEN Logged(user, Reply(400, "error",
                            "student_id, course_id, and graded_by must be integers."))
    ELSE IF "value" \in body.strings
    THEN Logged(user, Reply(400, "error", "value must be a number."))
    ELSE IF ~(0 <= body.value /\ body.value <= 100)
    THEN Logged(user, Reply(400, "error", "value must be between 0 and 100."))
    ELSE IF user.form = "dict"
    THEN AttributeError
    ELSE IF body.graded_by # user.id
    THEN Reply(403, "error", "graded_by must match authenticated user.")
    ELSE LET svc == UploadResult(body.student_id, body.course_id,
                                 body.value, body.graded_by)
         IN [status |-> IF svc.success THEN 201 ELSE 400,
             key |-> IF svc.success THEN "message" ELSE "error",
             text |-> svc.message,
             called |-> TRUE, success |-> svc.success, raised |-> "",
             grades |-> svc.grades, now |-> svc.now]

\* do_POST for /upload_grade with the user of the request's token (NoUser
\* without a valid one): an exception of the handler is answered with 500
do_POST(user, body) ==
    LET out == HandleUploadGrade(user, body)
    IN /\ response = Idle
       /\ out.now <= MaxClock
       /\ grades' = out.grades
       /\ now' = out.now
       /\ response' = [op |-> "handle_upload_grade", via |-> "do_POST",
                       user |-> user, body |-> body,
                       status |-> IF out.raised # "" THEN 500 ELSE out.status,
                       key |-> IF out.raised # "" THEN "error" ELSE out.key,
                       text |-> out.text, called |-> out.called,
                       success |-> out.success, raised |-> out.raised]
       /\ UNCHANGED <<calls, course_teacher, student_results, grading_system, enrollments>>

\* the handler called with a request object of its own, as its tests do
handle_upload_grade(user, body) ==
    LET out == HandleUploadGrade(user, body)
    IN /\ response = Idle
       /\ out.now <= MaxClock
       /\ grades' = out.grades
       /\ now' = out.now
       /\ response' = [op |-> "handle_upload_grade", via |-> "call",
                       user |-> user, body |-> body,
                       status |-> out.status, key |-> out.key,
                       text |-> out.text, called |-> out.called,
                       success |-> out.success, raised |-> out.raised]
       /\ UNCHANGED <<calls, course_teacher, student_results, grading_system, enrollments>>

TokenUsers == {get_authenticated_user(TokenPayload(u)) : u \in Users}

NextHandler ==
    \/ request_end
    \/ \E user \in TokenUsers \cup {NoUser}, body \in Bodies : do_POST(user, body)
    \/ \E r \in {"admin", "teacher", "student"}, u \in {10, 20}, body \in Bodies :
          handle_upload_grade(make_user(r, u), body)

SpecHandler == Init /\ [][NextHandler]_vars

---------------------------------------------------------------------------
(* GET /grades?student_id=...: the server's dispatch and handle_list_grades *)

\* the query string: no student_id, one that int() refuses, or an integer
Queries ==
    {[kind |-> kind, student_id |-> NoneNum] : kind \in {"none", "text"}}
        \cup {[kind |-> "int", student_id |-> n] : n \in Users \cup {UnknownUser}}

\* no student is ever turned away
DeniedStudentNever(user, student_id) == FALSE

\* "Students can only access their own grades": user_role is the dict's
\* role (the role attribute of a user object is an enum member, no string)
DeniedStudent(user, student_id) ==
    user.form = "dict" /\ user.role = "student" /\ user.id # student_id

ListReply(status, text) ==
    [status |-> status, text |-> text, returned |-> FALSE,
     grades |-> <<>>, raised |-> ""]

\* a log line reads request.user.id of a dict inside the handler's try; the
\* except branch reads it again for its own log line and so raises in turn
ListAttributeError ==
    [status |-> NoneNum, text |-> "'dict' object has no attribute 'id'",
     returned |-> FALSE, grades |-> <<>>, raised |-> "AttributeError"]

ListLogged(user, reply) == IF user.form = "dict" THEN ListAttributeError ELSE reply

\* the decorated handler, from the role check to the response
HandleListGrades(user, query) ==
    IF user.form = "none"
    THEN ListReply(403, "Forbidden: authentication required")
    ELSE IF ~RolePasses(user, {"admin", "teacher", "student"})
    THEN ListReply(403, "Forbidden: insufficient permissions")
    ELSE IF query.kind = "none"
    THEN ListLogged(user, ListReply(400, "student_id is required"))
    ELSE IF query.kind = "text"
    THEN ListLogged(user, ListReply(400, "student_id must be an integer"))
    ELSE IF DeniedStudent(user, query.student_id)
    THEN ListReply(403, "Students can only access their own grades")
    ELSE ListLogged(user, [status |-> 200, text |-> "", returned |-> TRUE,
                           grades |-> GradeListing(query.student_id),
                           raised |-> ""])

\* do_GET for /grades with the user of the request's token: an exception of
\* the handler is not caught and no response is written
do_GET(user, query) ==
    LET out == HandleListGrades(user, query)
    IN /\ response = Idle
       /\ response' = [op |-> "handle_list_grades", user |-> user, query |-> query,
                       status |-> out.status, text |-> out.text,
                       returned |-> out.returned, grades |-> out.grades,
                       raised |-> out.raised]
       /\ UNCHANGED <<calls, course_teacher, student_results, grades, grading_system, enrollments, now>>

NextList ==
    \/ request_end
    \/ \E sid \in Students \cup Classmates \cup {UnknownUser}, c \in Courses,
          by \in Teachers \cup Admins :
          upload_grade(sid, c, 85, by)
    \/ \E user \in TokenUsers \cup {NoUser}, query \in Queries : do_GET(user, query)

SpecList == Init /\ [][NextList]_vars

---------------------------------------------------------------------------
(* The first version: calculate_grade and the DatabaseManager's            *)
(* student_results table                                                   *)

\* a score as a caller passes it: an int, a str of decimal digits (a field
\* read from a file or typed in), a str that is no number, or None
Score(kind, n) == [kind |-> kind, n |-> n]

\* int(score): the number, or ValueError / TypeError
PyInt(score) ==
    IF score.kind \in {"int", "digits"}
    THEN [ok |-> TRUE, n |-> score.n]
    ELSE [ok |-> FALSE, n |-> 0]

\* a ladder whose first step leaves 80 out
calculate_grade_above_80(score) ==
    IF ~PyInt(score).ok THEN "F"
    ELSE IF PyInt(score).n > 80 THEN "A"
    ELSE IF PyInt(score).n >= 70 THEN "B"
    ELSE IF PyInt(score).n >= 60 THEN "C"
    ELSE IF PyInt(score).n >= 50 THEN "D"
    ELSE "F"

calculate_grade(score) ==
    IF ~PyInt(score).ok THEN "F"
    ELSE IF PyInt(score).n >= 80 THEN "A"
    ELSE IF PyInt(score).n >= 70 THEN "B"
    ELSE IF PyInt(score).n >= 60 THEN "C"
    ELSE IF PyInt(score).n >= 50 THEN "D"
    ELSE "F"

\* what the score column (INTEGER NOT NULL CHECK (score >= 0 AND score <= 100))
\* takes for the parameter: the integer, or an error of the statement
ScoreColumn(score) ==
    IF score.kind \in {"int", "digits"} /\ 0 <= score.n /\ score.n <= 100
    THEN [ok |-> TRUE, n |-> score.n]
    ELSE [ok |-> FALSE, n |-> 0]

\* get_student_by_index: the positions of the rows with that index number
StudentRowsOf(index_number) ==
    {i \in 1..Len(student_results) : student_results[i].index_number = index_number}

\* an UPDATE that sets the score and leaves the grade column alone
UpdatedRowsScoreOnly(index_number, new_score, new_grade) ==
    [i \in 1..Len(student_results) |->
        IF student_results[i].index_number = index_number
        THEN [student_results[i] EXCEPT !.score = ScoreColumn(new_score).n]
        ELSE student_results[i]]

\* UPDATE student_results SET score = %s, grade = %s WHERE index_number = %s
UpdatedRows(index_number, new_score, new_grade) ==
    [i \in 1..Len(student_results) |->
        IF student_results[i].index_number = index_number
        THEN [student_results[i] EXCEPT !.score = ScoreColumn(new_score).n,
                                        !.grade = new_grade]
        ELSE student_results[i]]

insert_student(index_number, score) ==
    LET grade == calculate_grade(score)
        stored == StudentRowsOf(index_number) = {} /\ ScoreColumn(score).ok
    IN /\ response = Idle
       /\ student_results' =
            IF stored
            THEN Append(student_results,
                        [index_number |-> index_number,
                         score |-> ScoreColumn(score).n,
                         grade |-> grade])
            ELSE student_results
       /\ response' = [op |-> "insert_student", index_number |-> index_number,
                       score |-> score, result |-> stored]
       /\ UNCHANGED <<calls, course_teacher, grades, grading_system, enrollments, now>>

update_student_score(index_number, new_score) ==
    LET new_grade == calculate_grade(new_score)
        stored == StudentRowsOf(index_number) # {} /\ ScoreColumn(new_score).ok
    IN /\ response = Idle
       /\ student_results' =
            IF stored
            THEN UpdatedRows(index_number, new_score, new_grade)
            ELSE student_results
       /\ response' = [op |-> "update_student_score", index_number |-> index_number,
                       score |-> new_score, result |-> stored]
       /\ UNCHANGED <<calls, course_teacher, grades, grading_system, enrollments, now>>

\* calculate_grade applied to a score, as the listing of students does
format_student_display(score) ==
    /\ response = Idle
    /\ response' = [op |-> "calculate_grade", score |-> score,
                    grade |-> calculate_grade(score)]
    /\ UNCHANGED <<calls, course_teacher, student_results, grades, grading_system, enrollments, now>>

\* the scores the table operations are called with: both sides of every
\* step of the ladder and of the column's range, and the inputs int() refuses
StoredScores ==
    {Score("int", n) : n \in {0 - 1, 0, 49, 50, 59, 60, 69, 70, 79, 80, 100, 101}}
        \cup {Score("digits", n) : n \in {49, 80}}
        \cup {Score("text", 0), Score("none", 0)}

\* every integer around the range, as int and as digits
LadderScores ==
    {Score("int", n) : n \in (0 - 2)..(MaxScore + 2)}
        \cup {Score("digits", n) : n \in 0..MaxScore}
        \cup {Score("text", 0), Score("none", 0)}

NextV1 ==
    \/ request_end
    \/ \E index_number \in {"S1", "S2"}, score \in StoredScores :
          insert_student(index_number, score)
    \/ \E index_number \in {"S1", "S2"}, score \in StoredScores :
          update_student_score(index_number, score)
    \/ \E score \in LadderScores : format_student_display(score)

SpecV1 == Init /\ [][NextV1]_vars

---------------------------------------------------------------------------
(* upload_grade step by step, for callers with a database session each     *)
(* (the server and the CLI, or two CLIs, on one database), all grading the  *)
(* same student in the same course                                         *)

\* the pair graded and the course's teacher
Shared == [student |-> 1, course |-> 1, teacher |-> 10]

\* the three validation queries pass and the call goes on to the lookup
upload_validate(p, value) ==
    /\ calls[p].pc = "idle"
    /\ ValidTeacher(Shared.teacher)
    /\ UserRole(Shared.student) = "student"
    /\ AssignedCourse(Shared.course, Shared.teacher)
    /\ calls' = [calls EXCEPT ![p] = [pc |-> "lookup", value |-> value, found |-> NoneNum]]
    /\ UNCHANGED <<course_teacher, student_results, grades, grading_system, enrollments, now, response>>

\* grade = db.query(Grade).filter_by(student_id, course_id).first(): the
\* committed row, or None
upload_lookup(p) ==
    /\ calls[p].pc = "lookup"
    /\ calls' = [calls EXCEPT ![p].pc = "write",
                              ![p].found = IF HasGrade(Shared.student, Shared.course)
                                           THEN MinOf(GradeRowsOf(Shared.student, Shared.course))
                                           ELSE NoneNum]
    /\ UNCHANGED <<course_teacher, student_results, grades, grading_system, enrollments, now, response>>

\* grade.value = value on the row found, or db.add(Grade(...)): a change
\* pending in the caller's session
upload_write(p) ==
    /\ calls[p].pc = "write"
    /\ calls' = [calls EXCEPT ![p].pc = "commit"]
    /\ UNCHANGED <<course_teacher, student_results, grades, grading_system, enrollments, now, response>>

\* db.commit(): the pending UPDATE of the row found, or the pending INSERT;
\* the table has no unique constraint on (student_id, course_id)
upload_commit(p) ==
    /\ calls[p].pc = "commit"
    /\ now < MaxClock
    /\ now' = now + 1
    /\ grades' =
         IF calls[p].found # NoneNum
         THEN [grades EXCEPT ![calls[p].found].value = calls[p].value,
                             ![calls[p].found].updated_at =
                                 IF grades[calls[p].found].value # calls[p].value
                                 THEN now' ELSE @]
         ELSE Append(grades, [id |-> Len(grades) + 1,
                              student_id |-> Shared.student,
                              course_id |-> Shared.course,
                              value |-> calls[p].value,
                              created_at |-> now',
                              updated_at |-> now',
                              graded_by |-> Shared.teacher])
    /\ calls' = [calls EXCEPT ![p].pc = "done"]
    /\ UNCHANGED <<course_teacher, student_results, grading_system, enrollments, response>>

\* return True, "Grade uploaded successfully", {...}
upload_return(p) ==
    /\ calls[p].pc = "done"
    /\ calls' = [calls EXCEPT ![p] = NoCall]
    /\ UNCHANGED <<course_teacher, student_results, grades, grading_system, enrollments, now, response>>

NextConcurrent ==
    \/ \E p \in Procs, value \in Scores : upload_validate(p, value)
    \/ \E p \in Procs : upload_lookup(p)
    \/ \E p \in Procs : upload_write(p)
    \/ \E p \in Procs : upload_commit(p)
    \/ \E p \in Procs : upload_return(p)

SpecConcurrent == Init /\ [][NextConcurrent]_vars

---------------------------------------------------------------------------
(* Courses changing hands: assign_teacher_to_course between uploads *)

assign_teacher_to_course(teacher_id, course_id) ==
    \/ /\ response = Idle
       /\ ~ValidTeacher(teacher_id)
       /\ response' = [op |-> "assign_teacher_to_course", success |-> FALSE,
                       message |-> "Teacher not found."]
       /\ UNCHANGED <<calls, student_results, grading_system, enrollments, course_teacher, grades, now>>
    \/ /\ response = Idle
       /\ ValidTeacher(teacher_id)
       /\ course_id \notin Courses
       /\ response' = [op |-> "assign_teacher_to_course", success |-> FALSE,
                       message |-> "Course not found."]
       /\ UNCHANGED <<calls, student_results, grading_system, enrollments, course_teacher, grades, now>>
    \/ /\ response = Idle
       /\ ValidTeacher(teacher_id)
       /\ course_id \in Courses
       /\ course_teacher' = [course_teacher EXCEPT ![course_id] = teacher_id]
       /\ response' = [op |-> "assign_teacher_to_course", success |-> TRUE,
                       message |-> "Teacher assigned to course."]
       /\ UNCHANGED <<calls, student_results, grading_system, enrollments, grades, now>>

NextAssign ==
    \/ request_end
    \/ \E sid \in Students \cup {UnknownUser}, c \in {1, 3}, v \in Scores,
          by \in Teachers \cup Admins :
          upload_grade(sid, c, v, by)
    \/ \E teacher_id \in Teachers \cup Admins, course_id \in {1, 3, 9} :
          assign_teacher_to_course(teacher_id, course_id)

SpecAssign == Init /\ [][NextAssign]_vars

---------------------------------------------------------------------------
(* The CLI's teacher menu, option 1 "Upload Grade" *)

\* what is typed at a prompt: a number, or text float() and int() refuse
Typed(kind, n) == [kind |-> kind, n |-> n]

\* validate_int(value, prompt, min_val): the number, or None
validate_int(typed, min_val) ==
    IF typed.kind = "number" /\ typed.n >= min_val THEN typed.n ELSE NoneNum

\* validate_float(value, prompt, min_val, max_val): the number, or None
validate_float(typed, min_val, max_val) ==
    IF typed.kind = "number" /\ typed.n >= min_val /\ typed.n <= max_val
    THEN typed.n ELSE NoneNum

\* "if not value": None, and the number 0 as well
NotValue(value) == value = NoneNum \/ value = 0

\* the menu's own reply when it does not reach upload_grade
MenuStops(user_id, student_id, course_id, value, printed) ==
    [op |-> "teacher_menu", user_id |-> user_id, student_id |-> student_id,
     course_id |-> course_id, value |-> value, called |-> FALSE,
     printed |-> printed, raised |-> ""]

\* one pass of the menu loop for the logged-in teacher user_id
teacher_menu_upload(user_id, student_id, course_id, value) ==
    LET sid == validate_int(student_id, 1)
        cid == validate_int(course_id, 1)
        val == validate_float(value, 0, MaxScore)
        svc == UploadResult(sid, cid, val, user_id)
    IN /\ response = Idle
       /\ IF NotValue(sid)
          THEN /\ response' = MenuStops(user_id, student_id, course_id, value,
                                        "[Error] Student ID")
               /\ UNCHANGED <<grades, now>>
          ELSE IF NotValue(cid)
          THEN /\ response' = MenuStops(user_id, student_id, course_id, value,
                                        "[Error] Course ID")
               /\ UNCHANGED <<grades, now>>
          ELSE IF ~AssignedCourse(cid, user_id)
          THEN /\ response' = MenuStops(user_id, student_id, course_id, value,
                                        "[Error] Course ID not assigned to you")
               /\ UNCHANGED <<grades, now>>
          ELSE IF NotValue(val)
          THEN /\ response' = MenuStops(user_id, student_id, course_id, value,
                                        "[Error] Grade Value")
               /\ UNCHANGED <<grades, now>>
          ELSE /\ svc.now <= MaxClock
               /\ grades' = svc.grades
               /\ now' = svc.now
               \* "ok, msg = upload_grade(...)" unpacks a 3-tuple into 2 names
               /\ response' = [op |-> "teacher_menu", user_id |-> user_id,
                               student_id |-> student_id, course_id |-> course_id,
                               value |-> value, called |-> TRUE,
                               printed |-> "", raised |-> "ValueError"]
       /\ UNCHANGED <<calls, course_teacher, student_results, grading_system, enrollments>>

NextCli ==
    \/ request_end
    \/ \E user_id \in Teachers,
          student_id \in {Typed("number", n) : n \in {0, 1, UnknownUser}}
                              \cup {Typed("text", 0)},
          course_id \in {Typed("number", n) : n \in {0, 1, 3}} \cup {Typed("text", 0)},
          value \in {Typed("number", n) : n \in {0 - 5, 0, 55, MaxScore, MaxScore + 1}}
                        \cup {Typed("text", 0)} :
          teacher_menu_upload(user_id, student_id, course_id, value)

SpecCli == Init /\ [][NextCli]_vars

---------------------------------------------------------------------------
(* Session tokens: generate_token and decode_token.  Bytes are numbers, a   *)
(* bytes object is a sequence of them                                      *)

\* the byte b"."
Dot == 46

\* the length of a digest in the model (hashlib.sha256 gives 32 bytes)
SigLen == 3

\* the digests of the model: every byte the separator or one of two others
Digests == [1..SigLen -> {Dot, 65, 66}]

\* expires_in, in ticks of the token clock (one tick is the default 3600 s)
expires_in == 1

RoleByte(role) ==
    IF role = "student" THEN 115 ELSE IF role = "staff" THEN 116 ELSE 97
ByteRole(b) ==
    IF b = 115 THEN "student" ELSE IF b = 116 THEN "staff" ELSE "admin"

\* json.dumps(payload).encode(): braces around the three values
PayloadBytes(payload) ==
    <<123, payload.user_id, RoleByte(payload.role), payload.exp, 125>>

\* whether json.loads takes the bytes
IsPayloadBytes(b) == Len(b) = 5 /\ b[1] = 123 /\ b[5] = 125

\* json.loads(payload_b.decode())
LoadPayload(b) == [user_id |-> b[2], role |-> ByteRole(b[3]), exp |-> b[4]]

\* base64.urlsafe_b64encode(...).decode() and base64.urlsafe_b64decode of it
urlsafe_b64encode(b) == [b64 |-> b]
urlsafe_b64decode(token) == token.b64

\* hmac.new(SECRET_KEY, message, sha256).digest() under a key for which the
\* digest of the payload signed is signature: that digest for the same
\* message, another value of the digest's length for any other message
HmacDigest(message, signed, signature) ==
    IF message = signed THEN signature ELSE [i \in 1..SigLen |-> 0]

generate_token_of(payload, signature) ==
    urlsafe_b64encode(PayloadBytes(payload) \o <<Dot>> \o signature)

\* decoded.rsplit(b".", 1): the cut is at the last separator byte
RSplit(decoded) ==
    LET dots == {i \in 1..Len(decoded) : decoded[i] = Dot}
        last == CHOOSE i \in dots : \A j \in dots : j <= i
    IN IF dots = {}
       THEN [found |-> FALSE, payload_b |-> <<>>, signature |-> <<>>]
       ELSE [found |-> TRUE,
             payload_b |-> SubSeq(decoded, 1, last - 1),
             signature |-> SubSeq(decoded, last + 1, Len(decoded))]

NoPayload == [user_id |-> NoneNum, role |-> "<None>", exp |-> NoneNum]

\* decode_token(token) at time t, for a token whose payload signed has the
\* digest signature: the payload, or None
decode_token_of(token, t, signed, signature) ==
    LET parts == RSplit(urlsafe_b64decode(token))
        expected_sig == HmacDigest(parts.payload_b, signed, signature)
    IN IF ~parts.found THEN NoPayload
       ELSE IF parts.signature # expected_sig THEN NoPayload
       ELSE IF ~IsPayloadBytes(parts.payload_b) THEN NoPayload
       ELSE IF LoadPayload(parts.payload_b).exp < t THEN NoPayload
       ELSE LoadPayload(parts.payload_b)

\* generate_token(user_id, role) at time t, then decode_token of the token
\* at time d; signature is the digest the key gives the payload
token_round_trip(user_id, role, signature, t, d) ==
    LET payload == [user_id |-> user_id, role |-> role, exp |-> t + expires_in]
        token == generate_token_of(payload, signature)
    IN /\ response = Idle
       /\ t <= d
       /\ response' = [op |-> "decode_token", user_id |-> user_id, role |-> role,
                       signature |-> signature, exp |-> payload.exp,
                       decoded_at |-> d, token |-> token,
                       payload |-> decode_token_of(token, d, PayloadBytes(payload),
                                                   signature)]
       /\ UNCHANGED <<calls, course_teacher, student_results, grades, grading_system, enrollments, now>>

NextToken ==
    \/ request_end
    \/ \E user_id \in Users, role \in {"student", "staff", "admin"},
          signature \in Digests, t \in 0..2, d \in 0..2 :
          token_round_trip(user_id, role, signature, t, d)

SpecToken == Init /\ [][NextToken]_vars

---------------------------------------------------------------------------
(* Properties of the grades table *)

\* C1: after any sequence of upload_grade calls there is at most one Grade
\* row per (student_id, course_id), and a successful upload for a pair that
\* already has a row leaves the number of rows as it was and sets that
\* row's value to the submitted value.
C1_OneGradePerPair ==
    /\ [](\A sid \in Students, c \in Courses : Cardinality(GradeRowsOf(sid, c)) <= 1)
    /\ [][\A sid \in Students, c \in Courses, v \in Scores, by \in Teachers :
            (/\ response'.op = "upload_grade"
             /\ HasGrade(sid, c)
             /\ upload_grade(sid, c, v, by)
             /\ response'.success)
                => /\ Len(grades') = Len(grades)
                   /\ \A i \in GradeRowsOf(sid, c) : grades'[i].value = v]_vars

\* a pair was graded and then graded again with another score: its one row
\* carries a later updated_at than created_at
C1_Witness ==
    /\ response.op = "upload_grade"
    /\ response.success
    /\ response.data.updated_at > response.data.created_at
    /\ Cardinality(GradeRowsOf(response.data.student_id, response.data.course_id)) = 1

---------------------------------------------------------------------------
(* Properties of the score evaluation (under SpecEval) *)

\* the standard table as the specification states it, in tenths
C2_StatedTable(letter) ==
    CASE letter = "A+" -> 40 [] letter = "A" -> 40 [] letter = "A-" -> 37
      [] letter = "B+" -> 33 [] letter = "B" -> 30 [] letter = "B-" -> 27
      [] letter = "C+" -> 23 [] letter = "C" -> 20 [] letter = "C-" -> 17
      [] letter = "D+" -> 13 [] letter = "D" -> 10 [] letter = "D-" -> 7
      [] letter = "E" -> 5 [] letter = "F" -> 0
      [] OTHER -> 0

\* C2: for every letter grade resolved, grade_point is the explicit points
\* of the scale's rule for that letter when the rule carries points, and the
\* standard-table value of the letter (0.0 for an unknown letter) when the
\* rule carries none.
C2_GradePointFallback ==
    (response.op = "resolve" /\ Truthy(response.letter_grade)) =>
        LET gs == response.grading_system
            same == {i \in 1..Len(gs) : gs[i].grade = response.letter_grade}
        IN IF same # {} /\ "points" \in DOMAIN gs[MinOf(same)]
           THEN response.grade_point = gs[MinOf(same)].points
           ELSE response.grade_point = C2_StatedTable(response.letter_grade)

\* the system default scale as the specification states it
C3_StatedDefault(score) ==
    IF score >= 80 THEN "A"
    ELSE IF score >= 70 THEN "B"
    ELSE IF score >= 60 THEN "C"
    ELSE IF score >= 50 THEN "D"
    ELSE "F"

\* C3: when the school's stored grading_system is empty or cannot be parsed,
\* every score in 0..100 is resolved with the system default scale: A from
\* 80, B from 70, C from 60, D from 50, F below 50.
C3_DefaultScaleWhenNoneConfigured ==
    (/\ response.op = "resolve"
     /\ LoadGradingSystem(grading_system) = EmptyScale
     /\ response.value \in 0..MaxScore)
        => response.letter_grade = C3_StatedDefault(response.value)

\* C4: for every non-null score and every scale, get_letter_grade returns
\* the grade of the first rule, in the scale's order, whose inclusive range
\* min..max contains the score, and None when no rule contains it (so a score
\* equal to a rule's min or max matches it, and of two overlapping rules the
\* earlier one wins).
C4_FirstMatchingRule ==
    (response.op = "resolve" /\ response.value # NoneNum) =>
        LET gs == response.grading_system
            v == response.value
            Contains(i) == gs[i].min <= v /\ v <= gs[i].max
        IN \/ /\ \A i \in 1..Len(gs) : ~Contains(i)
              /\ response.letter_grade = NoneLetter
           \/ \E i \in 1..Len(gs) :
                 /\ Contains(i)
                 /\ \A j \in 1..(i - 1) : ~Contains(j)
                 /\ response.letter_grade = gs[i].grade

\* a score that is the max of one rule and the min of an earlier, overlapping
\* rule has been resolved to the earlier rule's grade
C4_Witness ==
    /\ response.op = "resolve"
    /\ response.value # NoneNum
    /\ \E i, j \in 1..Len(response.grading_system) :
          /\ i < j
          /\ response.grading_system[i].min = response.value
          /\ response.grading_system[j].max = response.value
          /\ response.grading_system[j].min < response.value
          /\ response.letter_grade = response.grading_system[i].grade
          /\ response.grading_system[i].grade # response.grading_system[j].grade

---------------------------------------------------------------------------
(* Properties of generate_student_report (under Spec) *)

\* the last call was a report build that ran to its return
Returned == response.op = "generate_student_report" /\ response.status = "returned"

\* the sum of f over the set S of its arguments
RECURSIVE SumOn(_, _)
SumOn(f, S) ==
    IF S = {} THEN 0
    ELSE LET x == CHOOSE y \in S : TRUE IN f[x] + SumOn(f, S \ {x})

\* gpa (hundredths) is points (tenths) over credits rounded to 2 decimals:
\* it lies within half a hundredth of the quotient
IsRounded(gpa, points, credits) ==
    LET d == gpa * credits - 10 * points
    IN 2 * (IF d < 0 THEN 0 - d ELSE d) <= credits

\* the student's terms: the academic years of the classes of its enrollments
TermsOf(sid) == {ClassRows[enrollments[i].class_id] : i \in EnrollmentRowsOf(sid)}

\* y is the most recent of the terms ys by the ordering of the year labels
IsMostRecent(y, ys) == y \in ys /\ \A z \in ys : ~StrLess(y, z)

\* a rule of scale gs contains the score v
SomeRuleContains(gs, v) == \E i \in 1..Len(gs) : gs[i].min <= v /\ v <= gs[i].max

\* C5: in the per-term aggregation a course with no grade record, or whose
\* score matches no rule of the scale, contributes 0 points and 0 credits to
\* the term's totals and to the cumulative totals: the totals are the sums
\* over the other courses alone.
C5_UngradedContributesNothing ==
    Returned =>
        LET yrs == response.year_reports
            gs == response.grading_system
            graded(yr) == {i \in 1..Len(yrs[yr].courses) :
                             /\ yrs[yr].courses[i].grade_value # NoneNum
                             /\ SomeRuleContains(gs, yrs[yr].courses[i].grade_value)}
        IN /\ \A yr \in DOMAIN yrs :
                /\ yrs[yr].total_credits =
                      SumOn([i \in graded(yr) |-> yrs[yr].courses[i].credit_hours], graded(yr))
                /\ yrs[yr].total_points =
                      SumOn([i \in graded(yr) |-> yrs[yr].courses[i].grade_points], graded(yr))
                /\ \A i \in (1..Len(yrs[yr].courses)) \ graded(yr) :
                      yrs[yr].courses[i].grade_points = 0
           /\ response.accumulated_credits =
                 SumOn([yr \in DOMAIN yrs |-> yrs[yr].total_credits], DOMAIN yrs)
           /\ response.accumulated_points =
                 SumOn([yr \in DOMAIN yrs |-> yrs[yr].total_points], DOMAIN yrs)

\* a report whose terms hold a course without a grade record, a course whose
\* score matches no rule, and a graded course that does count
C5_Witness ==
    /\ Returned
    /\ \E yr \in DOMAIN response.year_reports :
          \E i \in 1..Len(response.year_reports[yr].courses) :
             response.year_reports[yr].courses[i].grade_value = NoneNum
    /\ \E yr \in DOMAIN response.year_reports :
          \E i, j \in 1..Len(response.year_reports[yr].courses) :
             /\ response.year_reports[yr].courses[i].grade_value # NoneNum
             /\ response.year_reports[yr].courses[i].letter_grade = NoneLetter
             /\ response.year_reports[yr].courses[j].letter_grade # NoneLetter
             /\ response.year_reports[yr].total_credits =
                   response.year_reports[yr].courses[j].credit_hours

\* the term a build takes as primary, as the claims state it: the requested
\* term when one is requested, else the most recent term
StatedPrimary(y) ==
    IF response.academic_year # NoYear
    THEN y = response.academic_year
    ELSE IsMostRecent(y, DOMAIN response.year_reports)

\* C6: the term GPA is null exactly when the term's total graded credits is
\* 0, and otherwise is total points over total credits rounded to 2 decimal
\* places; a term without a graded credit-bearing course never has GPA 0.0.
C6_TermGpa ==
    Returned =>
        \A y \in DOMAIN response.year_reports :
            StatedPrimary(y) =>
                LET t == response.year_reports[y]
                IN /\ (response.gpa = NoneNum) <=> (t.total_credits = 0)
                   /\ t.total_credits > 0 =>
                         /\ response.gpa >= 0
                         /\ IsRounded(response.gpa, t.total_points, t.total_credits)

\* a report whose primary term lists courses but has no graded credit, and
\* so a null GPA
C6_Witness ==
    /\ Returned
    /\ response.course_reports # <<>>
    /\ response.gpa = NoneNum
    /\ \E i \in 1..Len(response.course_reports) :
          response.course_reports[i].grade_value # NoneNum

\* C7: on the scale of the demo schools, a student with one term holding
\* course X (3 credits, score 85) and course Y (2 credits, score 55) gets X
\* resolved to "A" with 4.0 grade points, Y to "F" with 0.0 grade points,
\* and the term GPA (3*4.0 + 2*0.0)/5 = 2.40.
C7_ScenarioA ==
    (/\ Returned
     /\ response.grading_system = PopulateScale
     /\ DOMAIN response.year_reports = {Y2023}
     /\ Len(response.course_reports) = 2
     /\ response.course_reports[1].credit_hours = 3
     /\ response.course_reports[1].grade_value = 85
     /\ response.course_reports[2].credit_hours = 2
     /\ response.course_reports[2].grade_value = 55)
        => /\ response.course_reports[1].letter_grade = "A"
           /\ response.course_reports[1].grade_points = 40 * 3
           /\ response.course_reports[2].letter_grade = "F"
           /\ response.course_reports[2].grade_points = 0
           /\ response.gpa = 240

\* C8: the cumulative GPA is the sum of grade points times credit hours over
\* every graded course of every term the student is enrolled in, each
\* (student, course) grade record counted once, over the sum of those credit
\* hours, for any set of enrollment records.
C8_CumulativeGpa ==
    Returned =>
        LET sid == response.student_id
            gs == response.grading_system
            letterOf(c) == get_letter_grade(FirstGrade(sid, c).value, gs)
            graded == {c \in Courses :
                         /\ \E i \in EnrollmentRowsOf(sid) :
                               enrollments[i].class_id = CourseRows[c].class_id
                         /\ HasGrade(sid, c)
                         /\ Truthy(letterOf(c))}
            points == SumOn([c \in graded |->
                               grade_point(letterOf(c), gs) * CourseRows[c].credit_hours], graded)
            credits == SumOn([c \in graded |-> CourseRows[c].credit_hours], graded)
        IN IF credits = 0
           THEN response.accumulated_gpa = NoneNum
           ELSE /\ response.accumulated_gpa # NoneNum
                /\ IsRounded(response.accumulated_gpa, points, credits)

\* C9: every report returned holds, beside the primary term's course list,
\* the per-term breakdown of all the student's terms, the primary term's GPA
\* and the cumulative GPA.
C9_ReportHoldsBreakdown ==
    Returned =>
        /\ {"courses", "yearly_reports", "gpa", "accumulated_gpa"} \subseteq DOMAIN response.report
        /\ DOMAIN response.report.yearly_reports = TermsOf(response.student_id)

\* the last call was a report build for a student with an enrollment
BuildForEnrolled ==
    /\ response.op = "generate_student_report"
    /\ response.student_id \in Users
    /\ EnrollmentRowsOf(response.student_id) # {}

\* the primary view of a returned report is the courses and the GPA of term y
PrimaryIs(y) ==
    /\ y \in DOMAIN response.year_reports
    /\ response.course_reports = response.year_reports[y].courses
    /\ (response.gpa = NoneNum) <=> (response.year_reports[y].total_credits = 0)
    /\ response.year_reports[y].total_credits > 0 =>
          IsRounded(response.gpa, response.year_reports[y].total_points,
                    response.year_reports[y].total_credits)

---------------------------------------------------------------------------
(* Properties of upload_grade and update_school_grading_system (under Spec) *)

\* C11: upload_grade called with a grader who is not a staff user, or for a
\* course that is not assigned to that grader, returns a failure result and
\* leaves the set of Grade records and the value of every record unchanged.
C11_UnauthorizedUploadRefused ==
    [][\A sid \in Students \cup {UnknownUser}, c \in Courses, v \in Scores,
          by \in Teachers \cup Admins :
            (/\ response'.op = "upload_grade"
             /\ (UserRole(by) # "staff" \/ CourseRows[c].teacher_id # by)
             /\ upload_grade(sid, c, v, by))
                => /\ response'.op = "upload_grade"
                   /\ response'.success = FALSE
                   /\ grades' = grades]_vars

\* a teacher's upload for a course of another teacher has been refused while
\* the student already holds grades
C11_Witness ==
    /\ response.op = "upload_grade"
    /\ response.success = FALSE
    /\ response.message = "Course not found or not assigned to this teacher"
    /\ grades # <<>>

\* C12: after any sequence of grade submissions through any entry point,
\* the direct upload_grade call included, every stored Grade value lies in
\* 0..100; a submission with a score outside that range is rejected and
\* leaves the previous record of the pair, if any, unchanged.
C12_StoredValuesInRange ==
    /\ [](\A i \in 1..Len(grades) : 0 <= grades[i].value /\ grades[i].value <= MaxScore)
    /\ [][\A sid \in Students, c \in Courses, v \in SubmitScores, by \in Teachers :
            (upload_grade(sid, c, v, by) /\ ~(0 <= v /\ v <= MaxScore))
                => /\ response'.success = FALSE
                   /\ grades' = grades]_vars

\* a rule the claims call malformed: not a record with grade, min and max,
\* or with a non-numeric min or max, or with min > max
MalformedRule(rule) ==
    IF ~({"grade", "min", "max"} \subseteq DOMAIN rule) THEN TRUE
    ELSE IF "strings" \in DOMAIN rule /\ rule.strings \cap {"min", "max"} # {} THEN TRUE
    ELSE rule.min > rule.max

BoundsOrdered(gs) == \A i \in 1..Len(gs) : gs[i].min <= gs[i].max

LabelledBy(e, gs) ==
    LET hit == {i \in 1..Len(gs) : gs[i].min <= e.grade_value /\ e.grade_value <= gs[i].max}
    IN IF e.grade_value = NoneNum \/ hit = {}
       THEN e.letter_grade = NoneLetter
       ELSE \E i \in hit : (\A j \in hit : i <= j) /\ e.letter_grade = gs[i].grade

\* C15: a successful grading-scale update changes only the school's stored
\* scale: no Grade record is created, deleted or modified (value, grader,
\* timestamps), and a report built afterwards labels the unchanged raw
\* scores with the new scale.
C15_UpdateLeavesGrades ==
    /\ [][\A school_id \in SchoolIds, gs \in ScaleInputs :
            (/\ response'.op = "update_school_grading_system"
             /\ update_school_grading_system(school_id, gs)
             /\ response'.success)
                => /\ grades' = grades
                   /\ enrollments' = enrollments
                   /\ grading_system'.parses /\ grading_system'.doc = gs]_vars
    /\ [](Returned =>
            \A yr \in DOMAIN response.year_reports :
               \A i \in 1..Len(response.year_reports[yr].courses) :
                  LET e == response.year_reports[yr].courses[i]
                  IN /\ grading_system.parses
                     /\ LabelledBy(e, grading_system.doc)
                     /\ e.grade_value # NoneNum =>
                           \E g \in 1..Len(grades) :
                              /\ grades[g].id = e.grade_id
                              /\ grades[g].value = e.grade_value)

\* a report built under a scale set by an update gives a score of 55, which
\* the first scale calls F, the new scale's B, the grade row being as it was
\* inserted
C15_Witness ==
    /\ Returned
    /\ grading_system = json_dumps(PointsScale)
    /\ \E i \in 1..Len(response.course_reports) :
          /\ response.course_reports[i].grade_value = 55
          /\ response.course_reports[i].letter_grade = "B"
          /\ \E g \in 1..Len(grades) :
                /\ grades[g].id = response.course_reports[i].grade_id
                /\ grades[g].updated_at = grades[g].created_at

---------------------------------------------------------------------------
(* Properties of a report build interleaved with updates (under SpecReport) *)

\* the points of the course entry e are those the scale gs gives its label
PointedBy(e, gs) ==
    e.grade_points = IF Truthy(e.letter_grade)
                     THEN grade_point(e.letter_grade, gs) * e.credit_hours
                     ELSE 0

\* C16: if a grading-scale update commits at any point while
\* generate_student_report is running, every course of every term of the
\* resulting report is labelled and given grade points from one and the
\* same scale, the old or the new one, never from a mixture.
C16_OneScalePerReport ==
    Returned =>
        \E gs \in CommitScales \cup {PopulateScale} :
            \A yr \in DOMAIN response.year_reports :
               \A i \in 1..Len(response.year_reports[yr].courses) :
                  /\ LabelledBy(response.year_reports[yr].courses[i], gs)
                  /\ PointedBy(response.year_reports[yr].courses[i], gs)

\* a report over two terms, each with a graded course, returned when the
\* school stores another scale than the one the build began with
C16_Witness ==
    /\ Returned
    /\ grading_system # json_dumps(response.grading_system)
    /\ Cardinality(DOMAIN response.year_reports) = 2
    /\ \A yr \in DOMAIN response.year_reports :
          \E i \in 1..Len(response.year_reports[yr].courses) :
             response.year_reports[yr].courses[i].grade_value # NoneNum

---------------------------------------------------------------------------
(* Properties of the remarks (under SpecEval) *)

\* C17: the remark of a graded course is the explicit remarks value of the
\* rule that matched the score when that rule carries one, and otherwise
\* the fixed table's remark for the letter, for every scale, those in which
\* several rules share a grade label included.
C17_RemarkOfMatchingRule ==
    (response.op = "resolve" /\ Truthy(response.letter_grade)) =>
        LET gs == response.grading_system
            hit == {i \in 1..Len(gs) :
                      gs[i].min <= response.value /\ response.value <= gs[i].max}
            matched == gs[CHOOSE i \in hit : \A j \in hit : i <= j]
        IN IF "remarks" \in DOMAIN matched /\ matched.remarks # ""
           THEN response.remarks = matched.remarks
           ELSE response.remarks = RemarksMap(response.letter_grade)

---------------------------------------------------------------------------
(* Properties of the results of the core operations (under Spec) *)

\* C18: every failure of a core operation (upload_grade,
\* update_school_grading_system, generate_student_report), an unknown
\* student and a student without enrollment included, reaches the caller as
\* an explicit result value; no core operation raises an exception to its
\* caller.
C18_FailuresAreResults ==
    /\ response.op \in {"upload_grade", "update_school_grading_system"}
          => {"success", "message"} \subseteq DOMAIN response
    /\ response.op = "generate_student_report"
          => response.status # "raised"

\* C19: submitting the same (student, course, score) a second time through
\* upload_grade leaves exactly one Grade record for the pair, whose
\* created_at is what it was after the first submission and whose
\* updated_at is later than it was after the first.
C19_ResubmissionAdvancesUpdatedAt ==
    [][\A sid \in Students, c \in Courses, v \in Scores, by \in Teachers :
            (/\ upload_grade(sid, c, v, by)
             /\ response'.success
             /\ HasGrade(sid, c)
             /\ FirstGrade(sid, c).value = v)
                => /\ Cardinality({i \in 1..Len(grades') :
                                     grades'[i].student_id = sid /\ grades'[i].course_id = c}) = 1
                   /\ response'.data.created_at = FirstGrade(sid, c).created_at
                   /\ response'.data.updated_at > FirstGrade(sid, c).updated_at]_vars

\* C20: register_school_admin called with no grading system and a school
\* name not yet in use succeeds (status success) and stores the system
\* default scale as the new school's grading scale.
C20_RegistrationStoresDefault ==
    (/\ response.op = "register_school_admin"
     /\ response.grading_system = NoScale
     /\ response.school_name \notin SchoolNames)
        => /\ response.status = "success"
           /\ response.school.stored
           /\ response.school.grading_system = json_dumps(DEFAULT_GRADING_SYSTEM)

---------------------------------------------------------------------------
(* Properties of the upload endpoint *)

\* the role check let the request through to the handler's body
PassedRoleCheck == response.user.form # "none" /\ response.user.role \in {"admin", "teacher"}

\* C21: a request to handle_upload_grade that passes the role check is
\* answered 400, with no call of upload_grade and no grade written, when
\* its body is empty (error "No data provided"), is not JSON (error
\* "Invalid JSON body", which the handler ends with a full stop) or lacks a
\* required field (error "Missing required field: <field>"); and when
\* upload_grade is called the answer is a success status with the service
\* message exactly when upload_grade reports success.
C21_InvalidBodyAnswered400 ==
    (response.op = "handle_upload_grade" /\ PassedRoleCheck)
        => /\ response.body.kind = "empty"
                => /\ response.status = 400
                   /\ response.text = "No data provided"
                   /\ ~response.called
           /\ response.body.kind = "text"
                => /\ response.status = 400
                   /\ response.text = "Invalid JSON body."
                   /\ ~response.called
           /\ (response.body.kind = "object" /\ FirstMissing(response.body) # "")
                => /\ response.status = 400
                   /\ response.text = MissingField(FirstMissing(response.body))
                   /\ ~response.called
           /\ response.called
                => /\ (response.status = 201) <=> response.success
                   /\ response.key = (IF response.success THEN "message" ELSE "error")

\* C22: a request through the server with the token handle_login issues to
\* a teacher (stored role staff), whose body is valid and names a course
\* assigned to that teacher, passes the role check and leaves the grade
\* stored.
C22_TeacherTokenUploads ==
    (/\ response.op = "handle_upload_grade"
     /\ response.via = "do_POST"
     /\ response.user.form = "dict"
     /\ response.user.id \in Teachers
     /\ response.body.kind = "object"
     /\ response.body.keys = AllFields
     /\ response.body.strings = {}
     /\ response.body.value \in 0..100
     /\ response.body.graded_by = response.user.id
     /\ AssignedCourse(response.body.course_id, response.user.id))
        => /\ response.status # 403
           /\ HasGrade(response.body.student_id, response.body.course_id)


---------------------------------------------------------------------------
(* Properties of the first version *)

\* the letter the ladder is stated to give an integer score
StatedLetter(n) ==
    IF n >= 80 THEN "A"
    ELSE IF n >= 70 THEN "B"
    ELSE IF n >= 60 THEN "C"
    ELSE IF n >= 50 THEN "D"
    ELSE "F"

\* C24: calculate_grade gives every integer score in 0..100 the one letter
\* of the ladder A >= 80, B 70..79, C 60..69, D 50..59, F < 50, and gives F
\* for an input that is not a number.
C24_LadderOfCalculateGrade ==
    response.op = "calculate_grade"
        => /\ response.grade \in {"A", "B", "C", "D", "F"}
           /\ (response.score.kind = "int" /\ response.score.n \in 0..MaxScore)
                => response.grade = StatedLetter(response.score.n)
           /\ response.score.kind \in {"text", "none"} => response.grade = "F"

C24_Witness ==
    /\ response.op = "calculate_grade"
    /\ response.score = Score("int", 80)
    /\ response.grade = "A"

---------------------------------------------------------------------------
(* Properties of concurrent uploads *)

\* C25: when two concurrent upload_grade calls for the same (student,
\* course) have both committed, whatever the order of their steps, the
\* table holds exactly one Grade row for the pair and its value is the
\* value of one of the two calls.
C25_OneRecordAfterConcurrentUploads ==
    (\A p \in Procs : calls[p].pc = "done")
        => /\ Cardinality(GradeRowsOf(Shared.student, Shared.course)) = 1
           /\ \E p \in Procs :
                 FirstGrade(Shared.student, Shared.course).value = calls[p].value

---------------------------------------------------------------------------
(* Properties of the grader reference *)

\* C26: after a successful upload_grade(student, course, value, g) the
\* stored row of (student, course) has graded_by = g, also when the row was
\* created by another teacher and the course was reassigned to g with
\* assign_teacher_to_course before the re-grade.
C26_GraderIsLastUploader ==
    [][\A sid \in Students, c \in Courses, v \in Scores, by \in Teachers :
            (/\ response'.op = "upload_grade"
             /\ upload_grade(sid, c, v, by)
             /\ response'.success)
                => \A i \in 1..Len(grades') :
                      (grades'[i].student_id = sid /\ grades'[i].course_id = c)
                          => grades'[i].graded_by = by]_vars

---------------------------------------------------------------------------
(* Properties of the report header *)

\* C27: a report built without a requested term names in its header
\* (academic_year and class) the term whose courses it lists as the primary
\* view, the most recent of the student's terms, whatever the order in
\* which the student's enrollments were made.
C27_HeaderNamesPrimaryTerm ==
    (Returned /\ response.academic_year = NoYear)
        => \A y \in DOMAIN response.year_reports :
              IsMostRecent(y, DOMAIN response.year_reports)
                  => /\ response.report.courses = response.year_reports[y].courses
                     /\ response.report.academic_year = y
                     /\ ClassRows[response.report.class.id] = y

---------------------------------------------------------------------------
(* Properties of the CLI *)

\* C29: in the teacher menu every grade value from 0 to 100 inclusive typed
\* for a course assigned to the logged-in teacher is passed on to
\* upload_grade, the value 0 included.
C29_MenuSubmitsWholeRange ==
    (/\ response.op = "teacher_menu"
     /\ response.student_id.kind = "number"
     /\ response.student_id.n >= 1
     /\ response.course_id.kind = "number"
     /\ AssignedCourse(response.course_id.n, response.user_id)
     /\ response.value.kind = "number"
     /\ response.value.n \in 0..MaxScore)
        => response.called

---------------------------------------------------------------------------
(* Properties of session tokens *)

\* C30: decode_token of the token generate_token made for a user_id and a
\* role, evaluated before the token expires, returns a payload with that
\* user_id and that role, whatever bytes the signature consists of, the
\* separator byte included.
C30_TokenRoundTrip ==
    (response.op = "decode_token" /\ response.decoded_at <= response.exp)
        => /\ response.payload # NoPayload
           /\ response.payload.user_id = response.user_id
           /\ response.payload.role = response.role

====
